---- MODULE Spec2Model ----
(***************************************************************************)
(* Shape-and-token level model of text_recognizer.models.line_cnn (LineCNN) *)
(* and text_recognizer.models.line_cnn_transformer (LineCNNTransformer).    *)
(* Tensors are modelled by their shapes; token tensors by their contents.   *)
(* Indices are 0-based as in the Python source.                             *)
(***************************************************************************)
EXTENDS Integers, Sequences, FiniteSets, TLC

VARIABLES
    mapping,            \* data_config["mapping"]: the vocabulary, a list of strings
    max_output_length,  \* data_config["output_dims"][0]
    batch,              \* B, the batch size of the input of forward / decode
    pc,                 \* position inside the operation that is running
    Sy,                 \* loop variable of the two loops of forward
    output_tokens,      \* the (B, S) token buffer of forward
    greedy_tokens,      \* the buffer as the generation loop left it
    calls,              \* the calls forward has made to encode / decode, in order
    tgt,                \* the argument y of a decode call, a (B, Sy) token tensor
    memory,             \* the shape (Sx, B, E) of the argument x of a decode call
    decoded,            \* what the decode call returned
    input_dims,         \* data_config["input_dims"] = (1, H, W)
    args,               \* the options given on the command line (vars(args))
    x_shape,            \* the shape of the tensor x inside LineCNN.forward
    layer,              \* the next module of LineCNN.convs to apply
    heap,               \* the dict objects of the constructor, by address
    tfm,                \* the fields of the LineCNNTransformer under construction
    line_cnn            \* the fields of the LineCNN (stand-alone or inner)

fwdVars == <<Sy, output_tokens, greedy_tokens, calls>>
decVars == <<tgt, memory, decoded>>
cnnVars == <<x_shape, layer>>
objVars == <<heap, tfm, line_cnn>>
cfgVars == <<mapping, max_output_length, batch, input_dims, args>>
vars == <<cfgVars, pc, fwdVars, decVars, cnnVars, objVars>>

\* ------------------------------------------------------------------ bounds
MaxS == 4        \* largest max_output_length
MaxB == 2        \* largest batch of forward
MaxTokens == 8   \* largest token buffer (B * S entries) of forward
MaxSy == 3       \* longest target prefix handed to decode directly
MaxTgtB == 2     \* largest batch handed to decode directly
MaxTgtTokens == 6  \* largest target tensor (B * Sy entries) handed to decode directly

EncodedLength == 1   \* Sx, the length of the encoded image sequence
MaxW == 40       \* widest input image
MaxDim == 5      \* largest tf_dim given on the command line

\* ------------------------------------------------------- program constants
TF_DIM == 256
TF_LAYERS == 4
CONV_DIM == 32
FC_DIM == 512
WINDOW_WIDTH == 16
WINDOW_STRIDE == 8

\* ------------------------------------------------------------ configuration
\* Vocabularies; every one holds the three reserved tokens the constructor looks up.
Mappings ==
    { <<"<S>", "<E>", "<P>", "a">>,
      <<"<P>", "a", "<E>", "<S>">> }

\* inverse_mapping = {val: ind for ind, val in enumerate(mapping)}: a later
\* occurrence of val overwrites an earlier one; indices are 0-based.
inverse_mapping(m, val) ==
    (CHOOSE i \in 1..Len(m) : m[i] = val /\ \A j \in (i+1)..Len(m) : m[j] # val) - 1

num_classes(m) == Len(m)
start_token == inverse_mapping(mapping, "<S>")
end_token == inverse_mapping(mapping, "<E>")
padding_token == inverse_mapping(mapping, "<P>")

Min(a, b) == IF a <= b THEN a ELSE b

Tokens == 0..(num_classes(mapping) - 1)
Batch == 0..(batch - 1)

\* values of the variables an operation does not touch
UnusedFwd == Sy = 0 /\ output_tokens = <<>> /\ greedy_tokens = <<>> /\ calls = <<>>
UnusedDec == tgt = <<>> /\ memory = <<>> /\ decoded = <<>>
UnusedCnn == x_shape = <<>> /\ layer = 0
UnusedObj == heap = <<>> /\ tfm = <<>> /\ line_cnn = <<>>

\* ------------------------------------------------------------------ LineCNN
\* self.args.get(key, default)
ArgsGet(a, key, default) == IF key \in DOMAIN a THEN a[key] ELSE default

\* output size of nn.Conv2d / nn.MaxPool2d along one dimension
ConvOut(n, k, s, p) == ((n + 2 * p - k) \div s) + 1

Conv2d(cin, cout, kh, kw, ph, pw) ==
    [kind |-> "conv", cin |-> cin, cout |-> cout, k |-> <<kh, kw>>, s |-> <<1, 1>>, p |-> <<ph, pw>>]
Pointwise(c) ==     \* nn.BatchNorm2d(c), nn.ReLU()
    [kind |-> "same", cin |-> c, cout |-> c, k |-> <<1, 1>>, s |-> <<1, 1>>, p |-> <<0, 0>>]
ResBlock(cin, cout) ==   \* two 3x3 convolutions with padding 1 plus the skip path
    [kind |-> "res", cin |-> cin, cout |-> cout, k |-> <<3, 3>>, s |-> <<1, 1>>, p |-> <<1, 1>>]
MaxPool2d ==        \* nn.MaxPool2d(2, 2)
    [kind |-> "pool", cin |-> 0, cout |-> 0, k |-> <<2, 2>>, s |-> <<2, 2>>, p |-> <<0, 0>>]

\* LineCNN._build_advanced_cnn(conv_dim, fc_dim, H)
_build_advanced_cnn(conv_dim, fc_dim, H) ==
    << Conv2d(1, conv_dim, 3, 3, 1, 1), Pointwise(conv_dim), Pointwise(conv_dim),
       ResBlock(conv_dim, conv_dim),
       ResBlock(conv_dim, conv_dim),
       MaxPool2d,
       ResBlock(conv_dim, conv_dim * 2),
       MaxPool2d,
       ResBlock(conv_dim * 2, conv_dim * 4),
       MaxPool2d,
       ResBlock(conv_dim * 4, conv_dim * 8),
       MaxPool2d,
       Conv2d(conv_dim * 8, fc_dim, H \div 16, 3, 0, 1), Pointwise(fc_dim), Pointwise(fc_dim) >>

\* one module of self.convs applied to a (B, C, H, W) tensor
ApplyModule(m, shape) ==
    IF m.kind = "same" THEN shape
    ELSE <<shape[1],
           IF m.kind = "pool" THEN shape[2] ELSE m.cout,
           ConvOut(shape[3], m.k[1], m.s[1], m.p[1]),
           ConvOut(shape[4], m.k[2], m.s[2], m.p[2])>>

\* the module accepts the tensor: channel counts match and no output dimension is empty
ModuleAccepts(m, shape) ==
    /\ m.kind \in {"conv", "res"} => shape[2] = m.cin
    /\ m.kind = "conv" => m.k[1] >= 1
    /\ ApplyModule(m, shape)[3] >= 1
    /\ ApplyModule(m, shape)[4] >= 1

\* LineCNN.__init__(data_config, args)
LineCNNInit(data_config, a) ==
    [num_classes |-> Len(data_config.mapping),
     output_length |-> data_config.output_dims[1],
     fc_dim |-> ArgsGet(a, "fc_dim", FC_DIM),
     WW |-> ArgsGet(a, "window_width", WINDOW_WIDTH),
     WS |-> ArgsGet(a, "window_stride", WINDOW_STRIDE),
     limit_output_length |-> ArgsGet(a, "limit_output_length", FALSE),
     convs |-> _build_advanced_cnn(ArgsGet(a, "conv_dim", CONV_DIM),
                                   ArgsGet(a, "fc_dim", FC_DIM),
                                   data_config.input_dims[2])]

\* x.squeeze(2).permute(0, 2, 1): (B, FC_DIM, 1, S) -> (B, S, FC_DIM)
SqueezePermute(shape) == <<shape[1], shape[4], shape[2]>>

\* fc1, relu, dropout, fc2, permute(0, 2, 1): (B, S, FC_DIM) -> (B, C, S)
FullyConnected(shape, C) == <<shape[1], C, shape[2]>>

\* LimitOutputLength without the test of the flag
LimitOutputLength_Always(cnn, shape) ==
    <<shape[1], shape[2], Min(shape[3], cnn.output_length)>>

\* if self.limit_output_length: x = x[:, :, : self.output_length]
LimitOutputLength(cnn, shape) ==
    IF cnn.limit_output_length
    THEN <<shape[1], shape[2], Min(shape[3], cnn.output_length)>>
    ELSE shape

DataConfig == [input_dims |-> input_dims, output_dims |-> <<max_output_length>>, mapping |-> mapping]

Heights == {16, 32, 56}
Widths == 16..MaxW
CnnArgs ==
    [window_width : {8, 16}, window_stride : {8, 16}, limit_output_length : BOOLEAN]

InitCNN ==
    /\ mapping \in Mappings
    /\ max_output_length \in 1..MaxS
    /\ batch = 1
    /\ input_dims \in {<<1, H, W>> : H \in Heights, W \in Widths}
    /\ args \in CnnArgs
    /\ pc = "call"
    /\ line_cnn = LineCNNInit(DataConfig, args)
    /\ heap = <<>> /\ tfm = <<>>
    /\ UnusedFwd /\ UnusedDec /\ UnusedCnn

\* _B, _C, _H, _W = x.shape: an image of the configured size enters forward
CnnEnter ==
    /\ pc = "call"
    /\ x_shape' = <<batch, input_dims[1], input_dims[2], input_dims[3]>>
    /\ layer' = 1
    /\ pc' = "convs"
    /\ UNCHANGED <<cfgVars, fwdVars, decVars, objVars>>

\* x = self.convs(x), one module at a time
CnnModule ==
    /\ pc = "convs"
    /\ layer <= Len(line_cnn.convs)
    /\ ModuleAccepts(line_cnn.convs[layer], x_shape)
    /\ x_shape' = ApplyModule(line_cnn.convs[layer], x_shape)
    /\ layer' = layer + 1
    /\ UNCHANGED <<cfgVars, pc, fwdVars, decVars, objVars>>

\* x = x.squeeze(2).permute(0, 2, 1)
CnnSqueeze ==
    /\ pc = "convs"
    /\ layer > Len(line_cnn.convs)
    /\ x_shape[3] = 1
    /\ x_shape' = SqueezePermute(x_shape)
    /\ pc' = "fc"
    /\ UNCHANGED <<cfgVars, layer, fwdVars, decVars, objVars>>

\* x = self.fc2(self.dropout(F.relu(self.fc1(x)))).permute(0, 2, 1)
CnnFc ==
    /\ pc = "fc"
    /\ x_shape[3] = line_cnn.fc_dim
    /\ x_shape' = FullyConnected(x_shape, line_cnn.num_classes)
    /\ pc' = "limit"
    /\ UNCHANGED <<cfgVars, layer, fwdVars, decVars, objVars>>

\* the optional truncation and the return
CnnReturn ==
    /\ pc = "limit"
    /\ x_shape' = LimitOutputLength(line_cnn, x_shape)
    /\ pc' = "done"
    /\ UNCHANGED <<cfgVars, layer, fwdVars, decVars, objVars>>

NextCNN == CnnEnter \/ CnnModule \/ CnnSqueeze \/ CnnFc \/ CnnReturn

SpecCNN == InitCNN /\ [][NextCNN]_vars

\* ------------------------------------------------- properties of LineCNN
CnnReturned == pc = "done"
W == input_dims[3]

\* the number of positions of a window of width WW sliding with stride WS over W columns
SlidingWindows(width, WW, WS) == ((width - WW) \div WS) + 1

\* C3: with limit_output_length unset, the length of the sequence LineCNN.forward
\* returns is the value determined by the input width, the configured window
\* width and the configured window stride.
C3_LengthFromWindow ==
    (CnnReturned /\ ~line_cnn.limit_output_length) =>
        x_shape[3] = SlidingWindows(W, line_cnn.WW, line_cnn.WS)

\* C4, as stated: with limit_output_length set the returned length equals the
\* configured output length; unset, it is the computed sequence length.
C4_AsStated ==
    CnnReturned =>
        x_shape[3] = IF line_cnn.limit_output_length THEN line_cnn.output_length
                     ELSE W \div 16

\* C4, amended: with limit_output_length set the returned length is the
\* smaller of the computed sequence length (W div 16) and the configured output
\* length; unset, it is the computed sequence length whatever the configured
\* output length.
C4_LimitedLength ==
    CnnReturned =>
        /\ x_shape[1] = batch
        /\ x_shape[2] = line_cnn.num_classes
        /\ x_shape[3] = IF line_cnn.limit_output_length
                         THEN Min(W \div 16, line_cnn.output_length)
                         ELSE W \div 16

\* forward has returned a sequence truncated to the configured output length,
\* the computed sequence being longer
C4_Witness ==
    /\ CnnReturned
    /\ W \div 16 > line_cnn.output_length
    /\ line_cnn.limit_output_length
    /\ x_shape[3] = line_cnn.output_length

\* ------------------------------------------- LineCNNTransformer.__init__
\* list(range(n))
ListRange(n) == [i \in 1..n |-> i - 1]

\* ShallowCopy as an alias: data_config_for_line_cnn = data_config
ShallowCopy_Alias(h, a) == [heap |-> h, addr |-> a]

\* {**d}: a new dict object holding the same entries; the result names the
\* heap with the new object and the address of the new object
ShallowCopy(h, a) ==
    LET new == Cardinality(DOMAIN h) + 1
    IN  [heap |-> [x \in (DOMAIN h) \cup {new} |-> IF x = new THEN h[a] ELSE h[x]],
         addr |-> new]

CallerConfig == 1    \* the address of the dict the caller passes as data_config

TfmArgs ==
    {[window_width |-> 16, window_stride |-> 8, limit_output_length |-> l] :
        l \in BOOLEAN}
    \cup {[window_width |-> 16, window_stride |-> 8, limit_output_length |-> l, tf_dim |-> d] :
        l \in BOOLEAN, d \in 1..MaxDim}

InitTfm ==
    /\ mapping \in Mappings
    /\ max_output_length \in 1..MaxS
    /\ batch = 1
    /\ input_dims = <<1, 16, 16>>
    /\ args \in TfmArgs
    /\ pc = "new"
    /\ heap = [a \in {CallerConfig} |-> DataConfig]
    /\ tfm = <<>>
    /\ line_cnn = <<>>
    /\ UnusedFwd /\ UnusedDec /\ UnusedCnn

\* self.data_config ... self.dim: the fields read off data_config and args
TfmFields ==
    /\ pc = "new"
    /\ tfm' = [data_config |-> CallerConfig,
                input_dims |-> heap[CallerConfig].input_dims,
                num_classes |-> Len(heap[CallerConfig].mapping),
                start_token |-> inverse_mapping(heap[CallerConfig].mapping, "<S>"),
                end_token |-> inverse_mapping(heap[CallerConfig].mapping, "<E>"),
                padding_token |-> inverse_mapping(heap[CallerConfig].mapping, "<P>"),
                max_output_length |-> heap[CallerConfig].output_dims[1],
                dim |-> ArgsGet(args, "tf_dim", TF_DIM),
                config_for_line_cnn |-> 0,
                d_model |-> 0]
    /\ pc' = "copy"
    /\ UNCHANGED <<cfgVars, fwdVars, decVars, cnnVars, heap, line_cnn>>

\* data_config_for_line_cnn = {**data_config}
TfmCopyConfig ==
    /\ pc = "copy"
    /\ LET c == ShallowCopy(heap, tfm.data_config)
       IN  /\ heap' = c.heap
           /\ tfm' = [tfm EXCEPT !.config_for_line_cnn = c.addr]
    /\ pc' = "mapping"
    /\ UNCHANGED <<cfgVars, fwdVars, decVars, cnnVars, line_cnn>>

\* data_config_for_line_cnn["mapping"] = list(range(self.dim))
TfmReplaceMapping ==
    /\ pc = "mapping"
    /\ heap' = [heap EXCEPT ![tfm.config_for_line_cnn].mapping = ListRange(tfm.dim)]
    /\ pc' = "line_cnn"
    /\ UNCHANGED <<cfgVars, fwdVars, decVars, cnnVars, tfm, line_cnn>>

\* self.line_cnn = LineCNN(data_config=data_config_for_line_cnn, args=args)
TfmBuildLineCNN ==
    /\ pc = "line_cnn"
    /\ line_cnn' = LineCNNInit(heap[tfm.config_for_line_cnn], args)
    /\ pc' = "decoder"
    /\ UNCHANGED <<cfgVars, fwdVars, decVars, cnnVars, heap, tfm>>

\* the embedding, fc, positional encoding, mask and decoder, all of width self.dim
TfmBuildDecoder ==
    /\ pc = "decoder"
    /\ tfm' = [tfm EXCEPT !.d_model = tfm.dim]
    /\ pc' = "built"
    /\ UNCHANGED <<cfgVars, fwdVars, decVars, cnnVars, heap, line_cnn>>

NextTfm == TfmFields \/ TfmCopyConfig \/ TfmReplaceMapping \/ TfmBuildLineCNN \/ TfmBuildDecoder

SpecTfm == InitTfm /\ [][NextTfm]_vars

\* ---------------------------------------------- properties of __init__
Built == pc = "built"

\* C7: the channel count of the image encoder (the inner LineCNN's
\* num_classes) equals the decoder's model dimension tf_dim; the inner LineCNN
\* is built from a copy of data_config whose mapping has tf_dim entries, while
\* the transformer's num_classes and the caller's mapping stay the vocabulary.
C7_EncoderWidthIsModelDim ==
    Built =>
        /\ line_cnn.num_classes = tfm.d_model
        /\ tfm.d_model = ArgsGet(args, "tf_dim", TF_DIM)
        /\ tfm.config_for_line_cnn # tfm.data_config
        /\ Len(heap[tfm.config_for_line_cnn].mapping) = tfm.dim
        /\ tfm.num_classes = Len(mapping)
        /\ heap[CallerConfig].mapping = mapping

\* a model has been built whose tf_dim differs from the vocabulary size
C7_Witness ==
    /\ Built
    /\ "tf_dim" \in DOMAIN args
    /\ tfm.dim # Len(mapping)
    /\ line_cnn.num_classes = tfm.dim

\* ------------------------------------------------------------------- decode
\* transformer_util.generate_square_subsequent_mask(size): a (size, size) float
\* mask, "-inf" strictly above the diagonal and "0.0" on and below it.
generate_square_subsequent_mask(size) ==
    [i \in 0..(size - 1) |-> [j \in 0..(size - 1) |->
        IF j > i THEN "-inf" ELSE "0.0"]]

\* self.y_mask[:n, :n]; a Python slice stops at the end of the tensor
MaskSlice(mask, n) ==
    LET m == Min(n, Cardinality(DOMAIN mask))
    IN  [i \in 0..(m - 1) |-> [j \in 0..(m - 1) |-> mask[i][j]]]

\* y_padding_mask comparing with the end token: y == self.end_token
y_padding_mask_End(row) == [j \in DOMAIN row |-> row[j] = end_token]

\* y_padding_mask = y == self.padding_token, one row of it
y_padding_mask(row) == [j \in DOMAIN row |-> row[j] = padding_token]

\* nn.MultiheadAttention with attn_mask and key_padding_mask: query i may use
\* key j when the float mask adds 0.0 there and key j is not flagged as padding.
Attends(y_mask, pad, i, j) == y_mask[i][j] = "0.0" /\ ~pad[j]

\* EnhancedTransformerDecoderLayer.forward on one batch element, as data flow:
\* position i of the result is computed from position i of the input (the
\* residual and the position-wise norm / cross-attention / ffn) and from the
\* positions its self-attention uses as keys.  dep[i] is the set of target
\* positions the layer input at i was computed from.
DecoderLayer(dep, y_mask, pad) ==
    [i \in DOMAIN dep |->
        dep[i] \cup UNION {dep[j] : j \in {k \in DOMAIN dep : Attends(y_mask, pad, i, k)}}]

\* nn.TransformerDecoder(decoder_layer, num_layers): the layer applied num_layers times
RECURSIVE TransformerDecoder(_, _, _, _)
TransformerDecoder(dep, y_mask, pad, num_layers) ==
    IF num_layers = 0 THEN dep
    ELSE TransformerDecoder(DecoderLayer(dep, y_mask, pad), y_mask, pad, num_layers - 1)

\* The logits of one batch element, each position represented by what it is a
\* function of: the target tokens at the positions that flow into it.
Logits(row, y_mask, pad) ==
    LET n == Cardinality(DOMAIN row)
        embedded == [i \in 0..(n - 1) |-> {i}]
        flow == TransformerDecoder(embedded, y_mask, pad, TF_LAYERS)
    IN  [i \in 0..(n - 1) |-> [j \in flow[i] |-> row[j]]]

\* transformer_util.PositionalEncoding.forward: adds the encoding of the first
\* x.shape[0] positions; the shape is unchanged.
PositionalEncoding(shape) == shape

\* self.y_mask[:n, :n] of the mask built in __init__ for S positions
y_mask_for(S, n) == MaskSlice(generate_square_subsequent_mask(S), n)

\* What decode needs of its arguments to return: nn.Embedding takes classes in
\* [0, C-1]; the decoder rejects an attn_mask that is not (n, n), and a memory
\* whose batch or embedding size differs from the target's.
DecodeAccepts(xs, y, C, dim, S) ==
    LET B == Cardinality(DOMAIN y)
        n == Cardinality(DOMAIN y[0])
        embedded == PositionalEncoding(<<n, B, dim>>)
    IN  /\ \A b \in DOMAIN y : \A k \in DOMAIN y[b] : y[b][k] \in 0..(C - 1)
        /\ Cardinality(DOMAIN y_mask_for(S, n)) = n
        /\ xs[2] = embedded[2]
        /\ xs[3] = embedded[3]

\* DecodeShape without y.permute(1, 0): (B, Sy, C)
DecodeShape_Unpermuted(y, C) == <<Cardinality(DOMAIN y), Cardinality(DOMAIN y[0]), C>>

\* the shape of self.fc(output): (Sy, B, C)
DecodeShape(y, C) == <<Cardinality(DOMAIN y[0]), Cardinality(DOMAIN y), C>>

\* LineCNNTransformer.decode(x, y) for x of shape xs and y a (B, n) token tensor;
\* C classes, model dimension dim, self.y_mask built for S positions.
decode(xs, y, C, dim, S) ==
    LET y_mask == y_mask_for(S, Cardinality(DOMAIN y[0]))
    IN  IF DecodeAccepts(xs, y, C, dim, S)
        THEN [ok |-> TRUE,
              shape |-> DecodeShape(y, C),
              y_mask |-> y_mask,
              logits |-> [b \in DOMAIN y |-> Logits(y[b], y_mask, y_padding_mask(y[b]))]]
        ELSE [ok |-> FALSE, shape |-> <<>>, y_mask |-> y_mask, logits |-> <<>>]

InitDecode ==
    /\ mapping \in Mappings
    /\ max_output_length \in 1..MaxS
    /\ batch \in 1..MaxTgtB
    /\ pc = "ready"
    /\ input_dims = <<1, 16, 16>>
    /\ args = <<>>
    /\ UnusedFwd /\ UnusedDec /\ UnusedCnn /\ UnusedObj

\* a caller hands decode an encoded image and a target prefix
DecodeCall ==
    /\ pc = "ready"
    /\ \E n \in 1..MaxSy :
        /\ batch * n <= MaxTgtTokens
        /\ tgt' \in [Batch -> [0..(n - 1) -> Tokens]]
        /\ memory' = <<EncodedLength, batch, TF_DIM>>
    /\ pc' = "decoding"
    /\ UNCHANGED <<cfgVars, fwdVars, decoded, cnnVars, objVars>>

\* the body of decode
DecodeReturn ==
    /\ pc = "decoding"
    /\ decoded' = decode(memory, tgt, num_classes(mapping), TF_DIM, max_output_length)
    /\ pc' = "returned"
    /\ UNCHANGED <<cfgVars, fwdVars, tgt, memory, cnnVars, objVars>>

NextDecode == DecodeCall \/ DecodeReturn

SpecDecode == InitDecode /\ [][NextDecode]_vars

\* -------------------------------------------------- properties of decode
DecodeReturned == pc = "returned"
TgtLen == Cardinality(DOMAIN tgt[0])
TgtPositions == 0..(TgtLen - 1)

\* C5, as stated: for every encoded image and every target prefix of shape
\* (B, Sy), decode returns a tensor of shape (Sy, B, C).
C5_AsStated ==
    DecodeReturned =>
        /\ decoded.ok
        /\ decoded.shape = <<TgtLen, batch, num_classes(mapping)>>

\* C5, amended: for every target prefix with 1 <= Sy <= max_output_length,
\* decode returns a tensor of shape (Sy, B, C) and the causal mask it uses is
\* the (Sy, Sy) upper-left part of the mask built for max_output_length; for a
\* longer prefix the sliced mask has only max_output_length rows and decode
\* does not return.
C5_DecodeShape ==
    DecodeReturned =>
        /\ TgtLen <= max_output_length =>
              /\ decoded.ok
              /\ decoded.shape = <<TgtLen, batch, num_classes(mapping)>>
              /\ DOMAIN decoded.y_mask = TgtPositions
              /\ \A i \in TgtPositions :
                    /\ DOMAIN decoded.y_mask[i] = TgtPositions
                    /\ \A j \in TgtPositions : decoded.y_mask[i][j] =
                          generate_square_subsequent_mask(max_output_length)[i][j]
        /\ TgtLen > max_output_length =>
              /\ ~decoded.ok
              /\ Cardinality(DOMAIN decoded.y_mask) = max_output_length

\* decode has returned logits for a prefix of several positions, shorter
\* than max_output_length, whose length differs from the class count
C5_Witness ==
    /\ DecodeReturned
    /\ decoded.ok
    /\ TgtLen >= 2
    /\ TgtLen < max_output_length
    /\ decoded.shape[1] = TgtLen
    /\ decoded.shape[3] = num_classes(mapping)

\* the target rows that agree with row on positions 0..i
AgreeUpTo(row, i) ==
    {[k \in DOMAIN row |-> IF k <= i THEN row[k] ELSE later[k]] :
        later \in [{k \in DOMAIN row : k > i} -> Tokens]}

\* C6: in decode, query position i uses key position j in self-attention only
\* if j <= i and y[j] is not the padding token; hence the logits at position
\* i are the same for any two targets that agree on positions 0..i.
C6_CausalAndPaddingMasked ==
    (DecodeReturned /\ decoded.ok) =>
        \A b \in Batch :
            LET pad == y_padding_mask(tgt[b])
            IN  \A i \in TgtPositions :
                  /\ \A j \in TgtPositions :
                        Attends(decoded.y_mask, pad, i, j)
                            => (j <= i /\ tgt[b][j] # padding_token)
                  /\ \A r \in AgreeUpTo(tgt[b], i) :
                        Logits(r, decoded.y_mask, y_padding_mask(r))[i]
                            = decoded.logits[b][i]

\* decode has returned for a target with a padding token in the middle and a
\* non-padding token after it
C6_Witness ==
    /\ DecodeReturned
    /\ decoded.ok
    /\ TgtLen >= 3
    /\ \E b \in Batch :
          /\ tgt[b][0] # padding_token
          /\ tgt[b][1] = padding_token
          /\ tgt[b][2] # padding_token
          /\ DOMAIN decoded.logits[b][2] = {0, 2}

\* ------------------------------------------------------------------ forward
\* y = output_tokens[:, :n]
Prefix(tokens, n) == [b \in DOMAIN tokens |-> [k \in 0..(n - 1) |-> tokens[b][k]]]

\* torch.argmax(self.decode(x, y), dim=-1): an (Sy, B) tensor of classes.  The
\* decoder is causal and deterministic at inference, so the rows below the
\* newest one repeat the classes decoded from the shorter prefixes; the newest
\* row is any class.
ArgmaxOfDecode(tokens, n, newest) ==
    [i \in 0..(n - 1) |-> [b \in DOMAIN tokens |->
        IF i = n - 1 THEN newest[b] ELSE tokens[b][i + 1]]]

\* LastRow taking the first row instead: output[:1]
LastRow_First(output, n) == output[0]

\* output[-1:], squeezed over the batch
LastRow(output, n) == output[n - 1]

\* NewBuffer one position short: torch.ones((B, S - 1))
NewBuffer_Short(B, S) ==
    [b \in 0..(B - 1) |-> [k \in 0..(S - 2) |->
        IF k = 0 THEN start_token ELSE padding_token]]

\* NewBuffer without the start token written to column 0
NewBuffer_Unseeded(B, S) ==
    [b \in 0..(B - 1) |-> [k \in 0..(S - 1) |-> padding_token]]

\* (torch.ones((B, S)) * padding_token) with column 0 set to start_token
NewBuffer(B, S) ==
    [b \in 0..(B - 1) |-> [k \in 0..(S - 1) |->
        IF k = 0 THEN start_token ELSE padding_token]]

\* EndOrPadding without the padding test: ind = output_tokens[:, k - 1] == end_token
EndOrPadding_EndOnly(tokens, k) ==
    [b \in DOMAIN tokens |-> tokens[b][k - 1] = end_token]

\* ind = (output_tokens[:, k - 1] == end_token) | (output_tokens[:, k - 1] == padding_token)
EndOrPadding(tokens, k) ==
    [b \in DOMAIN tokens |-> \/ tokens[b][k - 1] = end_token
                             \/ tokens[b][k - 1] = padding_token]

\* SetPadding over the whole batch as soon as one element is flagged:
\* output_tokens[:, k] = padding_token if ind.any()
SetPadding_WholeBatch(tokens, ind, k) ==
    IF \E b \in DOMAIN tokens : ind[b]
    THEN [b \in DOMAIN tokens |-> [tokens[b] EXCEPT ![k] = padding_token]]
    ELSE tokens

\* output_tokens[ind, k] = padding_token
SetPadding(tokens, ind, k) ==
    [b \in DOMAIN tokens |->
        IF ind[b] THEN [tokens[b] EXCEPT ![k] = padding_token] ELSE tokens[b]]

Init ==
    /\ mapping \in Mappings
    /\ max_output_length \in 1..MaxS
    /\ batch \in 1..MaxB
    /\ batch * max_output_length <= MaxTokens
    /\ pc = "encode"
    /\ Sy = 0
    /\ output_tokens = <<>>
    /\ greedy_tokens = <<>>
    /\ calls = <<>>
    /\ input_dims = <<1, 16, 16>>
    /\ args = <<>>
    /\ UnusedDec /\ UnusedCnn /\ UnusedObj

\* x = self.encode(x)
Encode ==
    /\ pc = "encode"
    /\ calls' = Append(calls, [op |-> "encode", y |-> <<>>, argmax |-> <<>>])
    /\ pc' = "alloc"
    /\ UNCHANGED <<cfgVars, Sy, output_tokens, greedy_tokens, decVars, cnnVars, objVars>>

\* output_tokens = ones((B, S)) * padding_token; output_tokens[:, 0] = start_token
AllocBuffer ==
    /\ pc = "alloc"
    /\ output_tokens' = NewBuffer(batch, max_output_length)
    /\ Sy' = 1
    /\ pc' = "generate"
    /\ UNCHANGED <<cfgVars, greedy_tokens, calls, decVars, cnnVars, objVars>>

\* one iteration of: for Sy in range(1, S)
GenerateStep ==
    /\ pc = "generate"
    /\ Sy < max_output_length
    /\ LET y == Prefix(output_tokens, Sy)
       IN  /\ DecodeAccepts(<<EncodedLength, batch, TF_DIM>>, y,
                            num_classes(mapping), TF_DIM, max_output_length)
           /\ DecodeShape(y, num_classes(mapping))[1] = Sy
           /\ \E newest \in [Batch -> Tokens] :
                LET output == ArgmaxOfDecode(output_tokens, Sy, newest)
                    last == LastRow(output, Sy)
                IN  /\ calls' = Append(calls, [op |-> "decode", y |-> y, argmax |-> output])
                    /\ output_tokens' =
                         [b \in Batch |-> [output_tokens[b] EXCEPT ![Sy] = last[b]]]
    /\ Sy' = Sy + 1
    /\ UNCHANGED <<cfgVars, pc, greedy_tokens, decVars, cnnVars, objVars>>

\* range(1, S) of the generation loop is exhausted
GenerateExit ==
    /\ pc = "generate"
    /\ Sy >= max_output_length
    /\ greedy_tokens' = output_tokens
    /\ Sy' = 1
    /\ pc' = "pad"
    /\ UNCHANGED <<cfgVars, output_tokens, calls, decVars, cnnVars, objVars>>

\* one iteration of the second loop: set the token after an end or padding token to padding
PadStep ==
    /\ pc = "pad"
    /\ Sy < max_output_length
    /\ LET ind == EndOrPadding(output_tokens, Sy)
       IN  output_tokens' = SetPadding(output_tokens, ind, Sy)
    /\ Sy' = Sy + 1
    /\ UNCHANGED <<cfgVars, pc, greedy_tokens, calls, decVars, cnnVars, objVars>>

\* return output_tokens
Return ==
    /\ pc = "pad"
    /\ Sy >= max_output_length
    /\ pc' = "done"
    /\ UNCHANGED <<cfgVars, fwdVars, decVars, cnnVars, objVars>>

Next == Encode \/ AllocBuffer \/ GenerateStep \/ GenerateExit \/ PadStep \/ Return

Spec == Init /\ [][Next]_vars

\* ------------------------------------------------- properties of forward
Returned == pc = "done"
Positions == 0..(max_output_length - 1)
IsEndOrPad(t) == t = end_token \/ t = padding_token

\* C1: in the sequence forward returns, for every batch element and every
\* position k >= 1, if the token at k-1 is the end or the padding token then
\* the token at k is the padding token; hence every position after the first
\* end or padding token is padding.
C1_PaddingFollowsEndOrPadding ==
    Returned =>
        \A b \in Batch : \A k \in 1..(max_output_length - 1) :
            /\ IsEndOrPad(output_tokens[b][k - 1]) => output_tokens[b][k] = padding_token
            /\ (\E j \in 0..(k - 1) : IsEndOrPad(output_tokens[b][j]))
                  => output_tokens[b][k] = padding_token

\* the loop generated a non-padding token right after an end token, and
\* forward has returned
C1_Witness ==
    /\ Returned
    /\ \E b \in Batch : \E k \in 1..(max_output_length - 2) :
          /\ greedy_tokens[b][k] = end_token
          /\ ~IsEndOrPad(greedy_tokens[b][k + 1])
          /\ output_tokens[b][k + 1] = padding_token

\* C2: forward returns exactly max_output_length tokens for every batch
\* element, whatever was generated.
C2_OutputLength ==
    Returned =>
        /\ DOMAIN output_tokens = Batch
        /\ \A b \in Batch : DOMAIN output_tokens[b] = Positions

\* forward has returned a batch in which one element generated an end token
\* early and another generated none
C2_Witness ==
    /\ Returned
    /\ max_output_length >= 3
    /\ \E b \in Batch : greedy_tokens[b][1] = end_token
    /\ \E b \in Batch : \A k \in Positions : ~IsEndOrPad(greedy_tokens[b][k])

\* C8: forward calls encode once, then decode S-1 times on the prefixes of
\* lengths 1..S-1 in order; each prefix holds exactly the tokens generated so
\* far, starting with the start token; the token written at position n is the
\* argmax at the newest prefix position n-1; generation never stops early.
C8_CallSequence ==
    Returned =>
        /\ Len(calls) = max_output_length
        /\ calls[1].op = "encode"
        /\ \A n \in 1..(max_output_length - 1) :
              /\ calls[n + 1].op = "decode"
              /\ calls[n + 1].y = Prefix(greedy_tokens, n)
              /\ \A b \in Batch :
                    /\ calls[n + 1].y[b][0] = start_token
                    /\ greedy_tokens[b][n] = calls[n + 1].argmax[n - 1][b]

\* forward has returned after an end token was generated at position 1 of a
\* sequence of at least three positions, and a later decode still ran
C8_Witness ==
    /\ Returned
    /\ max_output_length >= 3
    /\ \E b \in Batch : greedy_tokens[b][1] = end_token
    /\ calls[max_output_length].op = "decode"

CountOf(row, t) == Cardinality({k \in DOMAIN row : row[k] = t})

\* C9: the second loop only writes padding; the returned sequence equals the
\* generated one at position 0 and at every position with no end or padding
\* token before it, so the first end token is kept and occurs at most once;
\* batch elements are treated independently.
C9_OnlyPaddingAfterFirstEnd ==
    Returned =>
        \A b \in Batch :
            /\ output_tokens[b][0] = start_token
            /\ \A k \in Positions :
                  /\ output_tokens[b][k] \in {greedy_tokens[b][k], padding_token}
                  /\ (\A j \in 0..(k - 1) : ~IsEndOrPad(greedy_tokens[b][j]))
                        => output_tokens[b][k] = greedy_tokens[b][k]
            /\ CountOf(output_tokens[b], end_token) <= 1

\* one batch element generated an end token followed by a non-padding token
\* (overwritten) while another element generated no end or padding at all
C9_Witness ==
    /\ Returned
    /\ \E b \in Batch : \E k \in 1..(max_output_length - 2) :
          /\ greedy_tokens[b][k] = end_token
          /\ output_tokens[b][k] = end_token
          /\ ~IsEndOrPad(greedy_tokens[b][k + 1])
          /\ output_tokens[b][k + 1] = padding_token
    /\ \E b \in Batch : \A k \in Positions :
          ~IsEndOrPad(greedy_tokens[b][k]) /\ output_tokens[b][k] = greedy_tokens[b][k]

\* the decode call forward has just made, while the generation loop runs
\* (every decode call of forward is the newest one in the state that follows it)
NewestDecode == calls[Len(calls)]
InGeneration == pc = "generate" /\ Len(calls) >= 2

\* C10: in every decode call forward makes, position 0 of the prefix is the
\* start token, which is not the padding token, so every query position may
\* attend to key 0: no self-attention row is fully masked.
C10_NoFullyMaskedRow ==
    InGeneration =>
        LET y == NewestDecode.y
            n == Cardinality(DOMAIN y[0])
            y_mask == y_mask_for(max_output_length, n)
        IN  /\ NewestDecode.op = "decode"
            /\ start_token # padding_token
            /\ \A b \in DOMAIN y :
                  /\ y[b][0] = start_token
                  /\ \A i \in 0..(n - 1) : Attends(y_mask, y_padding_mask(y[b]), i, 0)

\* a decode call whose prefix holds a padding token the loop generated, with
\* a later query position
C10_Witness ==
    /\ InGeneration
    /\ \E b \in DOMAIN NewestDecode.y :
          /\ Cardinality(DOMAIN NewestDecode.y[b]) >= 3
          /\ NewestDecode.y[b][1] = padding_token
          /\ NewestDecode.y[b][2] # padding_token
====
